---- MODULE Spec2Model ----
(***************************************************************************)
(* Mars rover dashboard, browser client (src/src/public/client.js).        *)
(*                                                                         *)
(* The client keeps no "current state" variable: an application state      *)
(* lives only in the markup of the root element (serialized into the       *)
(* onclick attributes by convertToJSON) and in the closures of the fetch   *)
(* callbacks.  The model keeps the root element, the document's            *)
(* data-bs-theme attribute, the fetches in flight with the state their     *)
(* callback closed over, and the microtask queue that holds the part of    *)
(* updateApplicationState after its await.                                 *)
(*                                                                         *)
(* JavaScript values are tagged records; strings are sequences of          *)
(* one-character strings.                                                  *)
(***************************************************************************)
EXTENDS Integers, Sequences, FiniteSets, TLC

VARIABLES
  root,            \* the root element: [innerHTML |-> markup]
  displayed,       \* history: the state snapshot root.innerHTML was generated from
  dataBsTheme,     \* document.documentElement's data-bs-theme attribute
  roverListFetch,  \* the rover-list request of the load listener
  photoFetches,    \* photo requests in flight, each with its callback's closure
  microtasks,      \* continuations of updateApplicationState after its await
  clicks,          \* number of user clicks so far
  issued,          \* history: number of photo requests issued so far
  outcome,         \* history: per photo request, "pending", "resolved" or "rejected"
  selected,        \* history: the rover of the card clicked last
  lastEvent,       \* history: the last task that ran (click or fetch settlement)
  photoArg,        \* createPhotoCard's argument (photo-card specification)
  photoCard,       \* createPhotoCard's result   (photo-card specification)
  mergeArg,        \* a state and two patches for mergeDeep (merge specification)
  mergeOut,        \* the merged states                      (merge specification)
  jsonArg,         \* convertToJSON's argument (inline-action specification)
  jsonOut,         \* the inline action's argument after evaluation
  request,         \* a GET request to the backend and what the upstream does
  response         \* the backend's answer to it

vars == <<root, displayed, dataBsTheme, roverListFetch, photoFetches,
          microtasks, clicks, issued, outcome, selected, lastEvent,
          photoArg, photoCard, mergeArg, mergeOut, jsonArg, jsonOut,
          request, response>>

\* The variables of the specifications of mergeDeep, of the inline actions
\* and of the backend, which the client's event loop leaves alone.
unitVars == <<mergeArg, mergeOut, jsonArg, jsonOut, request, response>>

\* Bound on the number of user clicks in a behaviour.
MaxClicks == 2

\* The longest string drawn for a field that is serialized on its own.
MaxStrLen == 2

(***************************************************************************)
(* JavaScript / Immutable values                                           *)
(***************************************************************************)
Undefined == [t |-> "undefined"]
Bool(b) == [t |-> "boolean", b |-> b]
Str(s) == [t |-> "string", s |-> s]
Map(m) == [t |-> "Map", m |-> m]
List(l) == [t |-> "List", l |-> l]

isMap(v) == v.t = "Map"
isList(v) == v.t = "List"

\* Map.get(key): undefined when the key is not set.
get(v, k) == IF k \in DOMAIN v.m THEN v.m[k] ELSE Undefined

\* JavaScript truthiness, as `x ? :`, `x || d` and `x && y` test it.
Truthy(v) ==
  CASE v.t = "undefined" -> FALSE
    [] v.t = "boolean" -> v.b
    [] v.t = "string" -> v.s # <<>>
    [] OTHER -> TRUE

\* Template-literal interpolation `${v}` of the values the model draws.
TextUndefined == <<"u", "n", "d", "e", "f", "i", "n", "e", "d">>
ToText(v) ==
  CASE v.t = "string" -> v.s
    [] v.t = "undefined" -> TextUndefined
    [] v.t = "boolean" -> IF v.b THEN <<"t", "r", "u", "e">> ELSE <<"f", "a", "l", "s", "e">>
    [] OTHER -> <<"[", "o", "b", "j", "e", "c", "t", "]">>

(***************************************************************************)
(* state.mergeDeep(newState) (Immutable 4): a key of the patch overwrites, *)
(* unless both sides hold a Map (merged recursively) or both hold a List   *)
(* (concatenated); keys absent from the patch are kept.                    *)
(***************************************************************************)
\* A merge that keeps only what the patch sets.
mergeDeepPatchOnly(state, newState) ==
  Map([k \in DOMAIN newState.m |-> newState.m[k]])

RECURSIVE mergeDeep(_, _)
mergeDeep(state, newState) ==
  Map([k \in (DOMAIN state.m) \cup (DOMAIN newState.m) |->
        IF k \notin DOMAIN newState.m THEN state.m[k]
        ELSE IF k \notin DOMAIN state.m THEN newState.m[k]
        ELSE IF isMap(state.m[k]) /\ isMap(newState.m[k])
          THEN mergeDeep(state.m[k], newState.m[k])
        ELSE IF isList(state.m[k]) /\ isList(newState.m[k])
          THEN List(state.m[k].l \o newState.m[k].l)
        ELSE newState.m[k]])

(***************************************************************************)
(* convertToJSON: JSON.stringify(obj).replace(/"/g, "'").                  *)
(* The text is kept as a tree of the same shape as the value, with every   *)
(* string literal spelled out character by character: that is where the    *)
(* replacement acts on data (keys are fixed identifiers).  JSON.stringify  *)
(* drops Map keys whose value is undefined.                                *)
(***************************************************************************)
DQ == "\""
SQ == "'"
BS == "\\"

RECURSIVE JSONEscape(_)
JSONEscape(s) ==
  IF s = <<>> THEN <<>>
  ELSE (IF Head(s) = DQ \/ Head(s) = BS THEN <<BS, Head(s)>> ELSE <<Head(s)>>)
       \o JSONEscape(Tail(s))

JSONStringifyString(s) == <<DQ>> \o JSONEscape(s) \o <<DQ>>

ReplaceQuotes(text) == [i \in 1..Len(text) |-> IF text[i] = DQ THEN SQ ELSE text[i]]

RECURSIVE convertToJSON(_)
convertToJSON(obj) ==
  CASE obj.t = "string" -> [t |-> "literal", text |-> ReplaceQuotes(JSONStringifyString(obj.s))]
    [] obj.t = "boolean" -> [t |-> "token", b |-> obj.b]
    [] obj.t = "Map" ->
         [t |-> "object",
          m |-> [k \in {j \in DOMAIN obj.m : obj.m[j] # Undefined} |-> convertToJSON(obj.m[k])]]
    [] obj.t = "List" ->
         [t |-> "array", l |-> [i \in 1..Len(obj.l) |-> convertToJSON(obj.l[i])]]
    [] OTHER -> [t |-> "null"]

(***************************************************************************)
(* The browser evaluates the onclick attribute as JavaScript and the       *)
(* handler passes the argument through Immutable.fromJS.  A single-quoted  *)
(* literal ends at the first unescaped quote; text after it is a           *)
(* SyntaxError and the handler never runs.                                 *)
(***************************************************************************)
SyntaxError == [t |-> "SyntaxError"]

\* Scan the body of a single-quoted literal from position i; acc is the value so far.
RECURSIVE ScanLiteral(_, _, _)
ScanLiteral(text, i, acc) ==
  IF i > Len(text) THEN SyntaxError
  ELSE IF text[i] = SQ THEN (IF i = Len(text) THEN Str(acc) ELSE SyntaxError)
  ELSE IF text[i] = BS
    THEN (IF i + 1 > Len(text) THEN SyntaxError
          ELSE ScanLiteral(text, i + 2, Append(acc, text[i + 1])))
  ELSE ScanLiteral(text, i + 1, Append(acc, text[i]))

ParseLiteral(text) ==
  IF Len(text) < 2 \/ text[1] # SQ THEN SyntaxError ELSE ScanLiteral(text, 2, <<>>)

RECURSIVE ParseAction(_)
ParseAction(js) ==
  CASE js.t = "literal" -> ParseLiteral(js.text)
    [] js.t = "token" -> Bool(js.b)
    [] js.t = "object" ->
         LET parts == [k \in DOMAIN js.m |-> ParseAction(js.m[k])]
         IN IF \E k \in DOMAIN js.m : parts[k] = SyntaxError THEN SyntaxError ELSE Map(parts)
    [] js.t = "array" ->
         LET parts == [i \in 1..Len(js.l) |-> ParseAction(js.l[i])]
         IN IF \E i \in 1..Len(js.l) : parts[i] = SyntaxError THEN SyntaxError ELSE List(parts)
    [] OTHER -> Undefined

(***************************************************************************)
(* Render engine: generateAppContent and the card builders.  The markup is *)
(* kept as its parts: the serialized arguments of the inline actions, the  *)
(* theme class of <main> and <footer>, and the two card rows as sequences  *)
(* of pieces (a card, or a run of text).                                   *)
(***************************************************************************)
UnknownCamera == <<"U", "n", "k", "n", "o", "w", "n", " ", "C", "a", "m", "e", "r", "a">>
UnknownDate == <<"U", "n", "k", "n", "o", "w", "n", " ", "D", "a", "t", "e">>
UnknownRover == <<"U", "n", "k", "n", "o", "w", "n", " ", "R", "o", "v", "e", "r">>

\* A card or other piece whose construction threw a TypeError.
Threw == [threw |-> TRUE]

createGreeting(name) ==
  IF Truthy(name) THEN [piece |-> "greeting", welcome |-> ToText(name)]
  ELSE [piece |-> "greeting", welcome |-> <<>>]

showLoadingSpinner == <<[piece |-> "spinner"]>>

\* photo.get("camera")?.get("full_name"): undefined when the camera is absent.
OptionalGet(photo, outer, inner) ==
  IF get(photo, outer) = Undefined THEN Undefined ELSE get(get(photo, outer), inner)

\* createPhotoCard with both defaults applied to a falsy value.
createPhotoCardNoDefault(photo) ==
  [threw |-> FALSE, piece |-> "photoCard",
   url |-> ToText(get(photo, "img_src")),
   camera |-> ToText(OptionalGet(photo, "camera", "full_name")),
   date |-> ToText(get(photo, "earth_date")),
   rover |-> ToText(OptionalGet(photo, "rover", "name"))]

createPhotoCard(photo) ==
  IF ~isMap(photo)
     \/ (get(photo, "camera") # Undefined /\ ~isMap(get(photo, "camera")))
     \/ (get(photo, "rover") # Undefined /\ ~isMap(get(photo, "rover")))
  THEN Threw
  ELSE
    LET url == get(photo, "img_src")
        cameraName == OptionalGet(photo, "camera", "full_name")
        earthDate == get(photo, "earth_date")
        roverName == OptionalGet(photo, "rover", "name")
        camera == IF Truthy(cameraName) THEN ToText(cameraName) ELSE UnknownCamera
        date == IF Truthy(earthDate) THEN ToText(earthDate) ELSE UnknownDate
        rover == IF Truthy(roverName) THEN ToText(roverName) ELSE UnknownRover
    IN [threw |-> FALSE, piece |-> "photoCard",
        url |-> ToText(url), camera |-> camera, date |-> date, rover |-> rover]

\* A card that is busy whenever any rover is loading.
createRoverCardAnyLoading(state, rover) ==
  IF ~isMap(rover) THEN Threw
  ELSE
    LET selectedRover == get(state, "selectedRover")
        isLoading == isMap(selectedRover) /\ Truthy(get(selectedRover, "loading"))
    IN [threw |-> FALSE, piece |-> "roverCard",
        name |-> ToText(get(rover, "name")),
        launch |-> ToText(get(rover, "launch_date")),
        landing |-> ToText(get(rover, "landing_date")),
        status |-> ToText(get(rover, "status")),
        onclickState |-> convertToJSON(state),
        onclickRover |-> convertToJSON(rover),
        busy |-> isLoading]

createRoverCard(state, rover) ==
  IF ~isMap(rover) THEN Threw
  ELSE
    LET selectedRover == get(state, "selectedRover")
        isLoading == isMap(selectedRover) /\ Truthy(get(selectedRover, "loading"))
        roverName == IF isMap(selectedRover) THEN get(selectedRover, "name") ELSE Undefined
    IN [threw |-> FALSE, piece |-> "roverCard",
        name |-> ToText(get(rover, "name")),
        launch |-> ToText(get(rover, "launch_date")),
        landing |-> ToText(get(rover, "landing_date")),
        status |-> ToText(get(rover, "status")),
        onclickState |-> convertToJSON(state),
        onclickRover |-> convertToJSON(rover),
        busy |-> isLoading /\ roverName = get(rover, "name")]

\* The rover row without the test for absent rovers.
RoverCardsHtmlUnguarded(state) ==
  LET rovers == get(state, "rovers")
  IN IF ~isList(rovers) THEN <<Threw>>
     ELSE [i \in 1..Len(rovers.l) |-> createRoverCard(state, rovers.l[i])]

\* The rover row: `rovers ? rovers.map(createRoverCard).join("") : spinner`.
RoverCardsHtml(state) ==
  LET rovers == get(state, "rovers")
  IN IF ~Truthy(rovers) THEN showLoadingSpinner
     ELSE IF ~isList(rovers) THEN <<Threw>>
     ELSE [i \in 1..Len(rovers.l) |-> createRoverCard(state, rovers.l[i])]

\* The gallery row: `gallery ? gallery.get("photos")?.map(createPhotoCard).join("") : ""`.
\* With photos absent the expression is undefined, which the template
\* interpolates as the text "undefined".
GalleryHtml(state) ==
  LET gallery == get(state, "selectedRoverGallery")
  IN IF ~Truthy(gallery) THEN <<>>
     ELSE IF ~isMap(gallery) THEN <<Threw>>
     ELSE LET photos == get(gallery, "photos")
          IN IF photos = Undefined THEN <<[threw |-> FALSE, piece |-> "text", text |-> TextUndefined]>>
             ELSE IF ~isList(photos) THEN <<Threw>>
             ELSE [i \in 1..Len(photos.l) |-> createPhotoCard(photos.l[i])]

\* themeClass of generateAppContent.
ThemeClassInverted(darkMode) == IF Truthy(darkMode) THEN "light-mode" ELSE "dark-mode"
ThemeClass(darkMode) == IF Truthy(darkMode) THEN "dark-mode" ELSE "light-mode"

generateAppContent(state) ==
  LET user == get(state, "user")
      darkMode == get(state, "isDarkMode")
      roverCardsHtml == RoverCardsHtml(state)
      galleryHtml == GalleryHtml(state)
      themeClass == ThemeClass(darkMode)
  IN IF ~isMap(user)
        \/ (\E i \in 1..Len(roverCardsHtml) : roverCardsHtml[i] = Threw)
        \/ (\E i \in 1..Len(galleryHtml) : galleryHtml[i] = Threw)
     THEN Threw
     ELSE [threw |-> FALSE,
           toggleOnclick |-> convertToJSON(state),
           toggleLabel |-> IF Truthy(darkMode) THEN "Light Mode" ELSE "Dark Mode",
           mainClass |-> themeClass,
           greeting |-> createGreeting(get(user, "name")),
           roverCards |-> roverCardsHtml,
           gallery |-> galleryHtml,
           footerClass |-> themeClass]

\* renderUI: assigns the generated markup to element.innerHTML; when
\* generateAppContent throws, the assignment never happens.
renderUI(element, state) ==
  LET html == generateAppContent(state)
  IN IF html = Threw THEN [element |-> element, threw |-> TRUE]
     ELSE [element |-> [innerHTML |-> html], threw |-> FALSE]

(***************************************************************************)
(* Update coordinator                                                      *)
(***************************************************************************)
\* updateApplicationState with the callback handed the state before the merge.
updateApplicationStateStaleCallback(element, state, newState, callback) ==
  LET updatedState == mergeDeep(state, newState)
      r == renderUI(element, updatedState)
  IN [element |-> r.element, threw |-> r.threw, state |-> updatedState,
      continuation |-> IF r.threw THEN <<>>
                       ELSE <<[callback |-> callback, arg |-> state]>>]

\* updateApplicationState: merge, render, and (after the await, as a
\* microtask) the callback with the merged state.  A render that throws
\* rejects the promise: nothing is assigned and the callback never runs.
updateApplicationState(element, state, newState, callback) ==
  LET updatedState == mergeDeep(state, newState)
      r == renderUI(element, updatedState)
  IN [element |-> r.element, threw |-> r.threw, state |-> updatedState,
      continuation |-> IF r.threw THEN <<>>
                       ELSE <<[callback |-> callback, arg |-> updatedState]>>]

\* toggleTheme that merges the flag it read instead of its negation.
toggleThemeNoFlip(element, state) ==
  LET darkMode == get(state, "isDarkMode")
  IN [update |-> updateApplicationState(element, state,
                   Map([isDarkMode |-> Bool(Truthy(darkMode))]), "null"),
      dataBsTheme |-> IF Truthy(darkMode) THEN "light" ELSE "dark"]

\* toggleTheme that carries only the user over to the new state.
toggleThemeUserOnly(element, state) ==
  LET darkMode == get(state, "isDarkMode")
  IN [update |-> updateApplicationState(element, Map([user |-> get(state, "user")]),
                   Map([isDarkMode |-> Bool(~Truthy(darkMode))]), "null"),
      dataBsTheme |-> IF Truthy(darkMode) THEN "light" ELSE "dark"]

\* toggleTheme(state): state is the onclick argument after Immutable.fromJS.
toggleTheme(element, state) ==
  LET darkMode == get(state, "isDarkMode")
  IN [update |-> updateApplicationState(element, state,
                   Map([isDarkMode |-> Bool(~Truthy(darkMode))]), "null"),
      dataBsTheme |-> IF Truthy(darkMode) THEN "light" ELSE "dark"]

\* showRoverDetails that leaves the previous gallery in place.
showRoverDetailsKeepGallery(element, state, rover) ==
  updateApplicationState(element, state,
    Map([selectedRover |-> Map(("loading" :> Bool(TRUE)) @@ rover.m)]),
    "fetchRoverData")

\* showRoverDetails(state, rover): both arguments after Immutable.fromJS.
showRoverDetails(element, state, rover) ==
  updateApplicationState(element, state,
    Map([selectedRoverGallery |-> Bool(FALSE),
         selectedRover |-> Map(("loading" :> Bool(TRUE)) @@ rover.m)]),
    "fetchRoverData")

\* fetchRoverPhotos: the request for rovers/<roverName>?max_date=<maxDate>;
\* callback is the state its callback closed over.
fetchRoverPhotos(roverName, maxDate, callback) ==
  [roverName |-> roverName, maxDate |-> maxDate, state |-> callback]

\* fetchRoverData whose callback closes over the state without its rovers.
fetchRoverDataWithoutRovers(state) ==
  LET selectedRover == get(state, "selectedRover")
  IN fetchRoverPhotos(get(selectedRover, "name"), get(selectedRover, "max_date"),
                      Map([k \in (DOMAIN state.m) \ {"rovers"} |-> state.m[k]]))

\* fetchRoverData(state): one photo request for the selected rover.
fetchRoverData(state) ==
  LET selectedRover == get(state, "selectedRover")
  IN fetchRoverPhotos(get(selectedRover, "name"), get(selectedRover, "max_date"), state)

\* The callback of fetchRoverData that leaves the loading flag set.
fetchRoverDataCallbackKeepLoading(element, state, data) ==
  updateApplicationState(element, state,
    Map([selectedRoverGallery |-> data]), "null")

\* The callback fetchRoverData hands to fetchRoverPhotos: merges the gallery
\* into the state that fetchRoverData was called with.
fetchRoverDataCallback(element, state, data) ==
  updateApplicationState(element, state,
    Map([selectedRoverGallery |-> data,
         selectedRover |-> Map([loading |-> Bool(FALSE)])]),
    "null")

\* The load listener's initialState.
initialState ==
  Map([user |-> Map([name |-> Str(<<"S", "t", "u", "d", "e", "n", "t">>)]),
       selectedRover |-> Bool(FALSE),
       selectedRoverGallery |-> Bool(FALSE),
       isDarkMode |-> Bool(FALSE)])

\* The callback the load listener hands to fetchRoverList: merges the rovers
\* of the response into initialState.
fetchRoverListCallback(element, data) ==
  updateApplicationState(element, initialState,
    Map([rovers |-> get(data, "rovers")]), "null")

(***************************************************************************)
(* Responses of the data gateway that the model draws                      *)
(***************************************************************************)
Rover(name, launch, landing, status, maxDate) ==
  Map([name |-> Str(name), launch_date |-> Str(launch), landing_date |-> Str(landing),
       status |-> Str(status), max_date |-> Str(maxDate)])

RoverA == Rover(<<"A">>, <<"1">>, <<"2">>, <<"o", "n">>, <<"7">>)
RoverB == Rover(<<"B">>, <<"3">>, <<"4">>, <<"o", "f", "f">>, <<"8">>)

ErrorBody == Map([error |-> Str(<<"e", "r", "r">>)])

\* A rover list, and a body without the rovers field.
RoverListResponses == {Map([rovers |-> List(<<RoverA, RoverB>>)]), ErrorBody}

Photo(url, date, camera, roverName) ==
  Map([img_src |-> Str(url), earth_date |-> Str(date),
       camera |-> Map([full_name |-> Str(camera)]),
       rover |-> Map([name |-> roverName])])

\* Bodies for a photo request: two photos, one photo without the optional
\* fields, no photos, and a body without the photos field.
PhotoResponses(roverName) ==
  {Map([photos |-> List(<<Photo(<<"p">>, <<"7">>, <<"M">>, roverName),
                          Photo(<<"q">>, <<"8">>, <<"N">>, roverName)>>)]),
   Map([photos |-> List(<<Map([img_src |-> Str(<<"r">>), earth_date |-> Str(<<>>)])>>)]),
   Map([photos |-> List(<<>>)]),
   ErrorBody}

(***************************************************************************)
(* Event loop.  A click or the settlement of a fetch is a task; it runs    *)
(* only when the microtask queue is empty, and the continuations it        *)
(* queues run before the next task.                                        *)
(***************************************************************************)
Event(op, base, before, rover, data, latest) ==
  [op |-> op, base |-> base, before |-> before, rover |-> rover, data |-> data,
   latest |-> latest, issued |-> issued,
   prevOp |-> lastEvent.op, prevBefore |-> lastEvent.before]

\* <div id="root"></div> before the first render.
EmptyRoot == [innerHTML |-> [threw |-> FALSE, piece |-> "empty"]]

\* The load listener has run: initialState is rendered (not awaited) and
\* the rover list is requested.
Init ==
  /\ root = renderUI(EmptyRoot, initialState).element
  /\ displayed = initialState
  /\ dataBsTheme = "unset"
  /\ roverListFetch = "pending"
  /\ photoFetches = {}
  /\ microtasks = <<>>
  /\ clicks = 0
  /\ issued = 0
  /\ outcome = <<>>
  /\ selected = Undefined
  /\ lastEvent = [op |-> "load", base |-> initialState, before |-> initialState,
                  rover |-> Undefined, data |-> Undefined, latest |-> FALSE,
                  issued |-> 0, prevOp |-> "none", prevBefore |-> initialState]
  /\ photoArg = Undefined
  /\ photoCard = Undefined
  /\ mergeArg = Undefined
  /\ mergeOut = Undefined
  /\ jsonArg = Undefined
  /\ jsonOut = Undefined
  /\ request = Undefined
  /\ response = Undefined

\* What a task's update leaves behind.
Apply(u) ==
  /\ root' = u.element
  /\ displayed' = IF u.threw THEN displayed ELSE u.state
  /\ microtasks' = u.continuation

ToggleThemeClick ==
  /\ microtasks = <<>>
  /\ clicks < MaxClicks
  /\ "toggleOnclick" \in DOMAIN root.innerHTML
  /\ LET state == ParseAction(root.innerHTML.toggleOnclick)
     IN /\ state # SyntaxError
        /\ LET r == toggleTheme(root, state)
           IN /\ Apply(r.update)
              /\ dataBsTheme' = r.dataBsTheme
        /\ lastEvent' = Event("toggleTheme", state, displayed, Undefined, Undefined, FALSE)
  /\ clicks' = clicks + 1
  /\ UNCHANGED <<roverListFetch, photoFetches, issued, outcome, selected,
                 photoArg, photoCard, unitVars>>

ShowRoverDetailsClick(i) ==
  /\ microtasks = <<>>
  /\ clicks < MaxClicks
  /\ root.innerHTML.roverCards[i].piece = "roverCard"
  /\ LET state == ParseAction(root.innerHTML.roverCards[i].onclickState)
         rover == ParseAction(root.innerHTML.roverCards[i].onclickRover)
     IN /\ state # SyntaxError
        /\ rover # SyntaxError
        /\ Apply(showRoverDetails(root, state, rover))
        /\ lastEvent' = Event("showRoverDetails", state, displayed,
                              get(displayed, "rovers").l[i], Undefined, FALSE)
  /\ selected' = get(displayed, "rovers").l[i]
  /\ clicks' = clicks + 1
  /\ UNCHANGED <<dataBsTheme, roverListFetch, photoFetches, issued, outcome,
                 photoArg, photoCard, unitVars>>

\* The rest of updateApplicationState after `await renderUI(...)`.
RunMicrotask ==
  /\ microtasks # <<>>
  /\ microtasks' = Tail(microtasks)
  /\ IF Head(microtasks).callback = "fetchRoverData"
     THEN /\ photoFetches' = photoFetches \cup
                {[id |-> issued, request |-> fetchRoverData(Head(microtasks).arg)]}
          /\ issued' = issued + 1
          /\ outcome' = Append(outcome, "pending")
     ELSE UNCHANGED <<photoFetches, issued, outcome>>
  /\ UNCHANGED <<root, displayed, dataBsTheme, roverListFetch, clicks, selected,
                 lastEvent, photoArg, photoCard, unitVars>>

RoverListResolve(data) ==
  /\ microtasks = <<>>
  /\ roverListFetch = "pending"
  /\ roverListFetch' = "resolved"
  /\ Apply(fetchRoverListCallback(root, data))
  /\ lastEvent' = Event("roverListResolved", initialState, displayed, Undefined, data, FALSE)
  /\ UNCHANGED <<dataBsTheme, photoFetches, clicks, issued, outcome, selected,
                 photoArg, photoCard, unitVars>>

\* fetch rejects or response.json() rejects: the callback is never called.
RoverListFail ==
  /\ microtasks = <<>>
  /\ roverListFetch = "pending"
  /\ roverListFetch' = "rejected"
  /\ lastEvent' = Event("roverListFailed", displayed, displayed, Undefined, Undefined, FALSE)
  /\ UNCHANGED <<root, displayed, dataBsTheme, photoFetches, microtasks, clicks, issued,
                 outcome, selected, photoArg, photoCard, unitVars>>

PhotosResolve(f, data) ==
  /\ microtasks = <<>>
  /\ f \in photoFetches
  /\ photoFetches' = photoFetches \ {f}
  /\ Apply(fetchRoverDataCallback(root, f.request.state, data))
  /\ lastEvent' = Event("photosResolved", f.request.state, displayed,
                        get(f.request.state, "selectedRover"), data, f.id = issued - 1)
  /\ outcome' = [outcome EXCEPT ![f.id + 1] = "resolved"]
  /\ UNCHANGED <<dataBsTheme, roverListFetch, clicks, issued, selected, photoArg, photoCard, unitVars>>

\* fetch rejects or response.json() rejects: the callback is never called.
PhotosFail(f) ==
  /\ microtasks = <<>>
  /\ f \in photoFetches
  /\ photoFetches' = photoFetches \ {f}
  /\ lastEvent' = Event("photosFailed", displayed, displayed,
                        get(f.request.state, "selectedRover"), Undefined, f.id = issued - 1)
  /\ outcome' = [outcome EXCEPT ![f.id + 1] = "rejected"]
  /\ UNCHANGED <<root, displayed, dataBsTheme, roverListFetch, microtasks, clicks, issued,
                 selected, photoArg, photoCard, unitVars>>

ShowRoverDetailsClickAny ==
  /\ "roverCards" \in DOMAIN root.innerHTML
  /\ \E i \in 1..Len(root.innerHTML.roverCards) : ShowRoverDetailsClick(i)

RoverListResolveAny == \E data \in RoverListResponses : RoverListResolve(data)

PhotosResolveAny ==
  \E f \in photoFetches : \E data \in PhotoResponses(f.request.roverName) :
    PhotosResolve(f, data)

PhotosFailAny == \E f \in photoFetches : PhotosFail(f)

Next ==
  \/ ToggleThemeClick
  \/ ShowRoverDetailsClickAny
  \/ RunMicrotask
  \/ RoverListResolveAny
  \/ RoverListFail
  \/ PhotosResolveAny
  \/ PhotosFailAny

Spec == Init /\ [][Next]_vars

(***************************************************************************)
(* The event loop always drains the microtask queue: a continuation that   *)
(* is queued runs.  When a fetch settles is up to the network.             *)
(***************************************************************************)
SpecFair == Init /\ [][Next]_vars /\ WF_vars(RunMicrotask)

(***************************************************************************)
(* createPhotoCard on its own: every photo over the optional fields.       *)
(***************************************************************************)
Optional(values) == {Undefined} \cup values

PhotoFields ==
  [img_src : Optional({Str(<<"p">>)}),
   earth_date : Optional({Str(<<>>), Str(<<"7">>)}),
   camera : Optional({Map(<<>>), Map([full_name |-> Str(<<>>)]), Map([full_name |-> Str(<<"M">>)])}),
   rover : Optional({Map(<<>>), Map([name |-> Str(<<>>)]), Map([name |-> Str(<<"A">>)])})]

\* Immutable.fromJS of a photo: a field that is absent is not a key of the Map.
PhotoFromJS(fields) ==
  Map([k \in {j \in DOMAIN fields : fields[j] # Undefined} |-> fields[k]])

InitPhotoCard ==
  /\ Init!1 /\ Init!2 /\ Init!3 /\ Init!4 /\ Init!5 /\ Init!6 /\ Init!7 /\ Init!8
  /\ Init!9 /\ Init!10 /\ Init!11
  /\ photoArg \in {PhotoFromJS(f) : f \in PhotoFields}
  /\ photoCard = Undefined
  /\ Init!14 /\ Init!15 /\ Init!16 /\ Init!17 /\ Init!18 /\ Init!19

RenderPhotoCard ==
  /\ photoCard = Undefined
  /\ photoCard' = createPhotoCard(photoArg)
  /\ UNCHANGED <<root, displayed, dataBsTheme, roverListFetch, photoFetches, microtasks,
                 clicks, issued, outcome, selected, lastEvent, photoArg, unitVars>>

SpecPhotoCard == InitPhotoCard /\ [][RenderPhotoCard]_vars

(***************************************************************************)
(* mergeDeep on its own: the states of the selection cycle and the patches *)
(* the client merges, alone and combined, two at a time.                   *)
(***************************************************************************)
TwoPhotos == Map([photos |-> List(<<Photo(<<"p">>, <<"7">>, <<"M">>, Str(<<"A">>)),
                                    Photo(<<"q">>, <<"8">>, <<"N">>, Str(<<"A">>))>>)])

MergeStates ==
  LET listed == mergeDeep(initialState, Map([rovers |-> List(<<RoverA, RoverB>>)]))
      loading == mergeDeep(listed, Map([selectedRover |-> Map(("loading" :> Bool(TRUE)) @@ RoverA.m)]))
      loaded == mergeDeep(loading, Map([selectedRoverGallery |-> TwoPhotos,
                                        selectedRover |-> Map([loading |-> Bool(FALSE)])]))
  IN {initialState, listed, loading, loaded}

MergePatchValues ==
  [isDarkMode : {Undefined, Bool(TRUE), Bool(FALSE)},
   rovers : {Undefined, List(<<RoverB>>)},
   selectedRover : {Undefined, Map([loading |-> Bool(FALSE)]),
                    Map(("loading" :> Bool(TRUE)) @@ RoverB.m)},
   selectedRoverGallery : {Undefined, Bool(FALSE), ErrorBody}]

\* The patches: a key is in the patch when a value is given for it.
MergePatches ==
  {Map([k \in {j \in DOMAIN v : v[j] # Undefined} |-> v[k]]) : v \in MergePatchValues}

InitMerge ==
  /\ Init!1 /\ Init!2 /\ Init!3 /\ Init!4 /\ Init!5 /\ Init!6 /\ Init!7 /\ Init!8
  /\ Init!9 /\ Init!10 /\ Init!11 /\ Init!12 /\ Init!13
  /\ mergeArg \in {[state |-> st, a |-> a, b |-> b] :
                     st \in MergeStates,
                     a \in MergePatches \ {Map(<<>>)},
                     b \in {pb \in MergePatches : DOMAIN pb.m # {}}}
  /\ (DOMAIN mergeArg.a.m) \cap (DOMAIN mergeArg.b.m) = {}
  /\ mergeOut = Undefined
  /\ Init!16 /\ Init!17 /\ Init!18 /\ Init!19

MergeBoth ==
  /\ mergeOut = Undefined
  /\ mergeOut' =
       [a |-> mergeDeep(mergeArg.state, mergeArg.a),
        ab |-> mergeDeep(mergeDeep(mergeArg.state, mergeArg.a), mergeArg.b),
        ba |-> mergeDeep(mergeDeep(mergeArg.state, mergeArg.b), mergeArg.a),
        both |-> mergeDeep(mergeArg.state, Map(mergeArg.a.m @@ mergeArg.b.m))]
  /\ UNCHANGED <<root, displayed, dataBsTheme, roverListFetch, photoFetches, microtasks,
                 clicks, issued, outcome, selected, lastEvent, photoArg, photoCard,
                 mergeArg, jsonArg, jsonOut, request, response>>

SpecMerge == InitMerge /\ [][MergeBoth]_vars

(***************************************************************************)
(* convertToJSON on its own: a rover, a photo and a state whose string     *)
(* fields range over an alphabet with both quote characters, serialized    *)
(* into an inline action and evaluated back as the handler's argument.     *)
(***************************************************************************)
JSONAlphabet == {"a", SQ, DQ}

JSONStrings == UNION {[1..n -> JSONAlphabet] : n \in 0..MaxStrLen}

JSONObjects ==
  {Rover(n, <<"1">>, <<"2">>, st, <<"7">>) : n \in JSONStrings, st \in JSONStrings}
  \cup {Photo(<<"p">>, <<"7">>, c, Str(n)) : c \in JSONStrings, n \in JSONStrings}
  \cup {mergeDeep(initialState,
                  Map([user |-> Map([name |-> Str(u)]),
                       rovers |-> List(<<Rover(n, <<"1">>, <<"2">>, <<"o", "n">>, <<"7">>)>>)])) :
          u \in JSONStrings, n \in JSONStrings}

InitJSON ==
  /\ Init!1 /\ Init!2 /\ Init!3 /\ Init!4 /\ Init!5 /\ Init!6 /\ Init!7 /\ Init!8
  /\ Init!9 /\ Init!10 /\ Init!11 /\ Init!12 /\ Init!13 /\ Init!14 /\ Init!15
  /\ jsonArg \in JSONObjects
  /\ jsonOut = Undefined
  /\ Init!18 /\ Init!19

\* onclick="handler(${convertToJSON(obj)})" clicked: the argument the handler gets.
SerializeAndParse ==
  /\ jsonOut = Undefined
  /\ jsonOut' = ParseAction(convertToJSON(jsonArg))
  /\ UNCHANGED <<root, displayed, dataBsTheme, roverListFetch, photoFetches, microtasks,
                 clicks, issued, outcome, selected, lastEvent, photoArg, photoCard,
                 mergeArg, mergeOut, jsonArg, request, response>>

SpecJSON == InitJSON /\ [][SerializeAndParse]_vars

(***************************************************************************)
(* The backend: an Express application.  Layers are tried in the order     *)
(* they were registered; the first one that answers ends the request.  A   *)
(* request is a GET with its path (as segments), its max_date query        *)
(* parameter, what the two static directories and dist/index.html hold,    *)
(* and how the upstream API will settle.  The bare '*' path is Express 4   *)
(* syntax, and Express 4 does not observe the promise an async handler     *)
(* returns: when it rejects, nothing is sent.                              *)
(***************************************************************************)
Paths ==
  {<<>>, <<"index.html">>, <<"rovers">>, <<"rovers", "A">>, <<"rovers", "B">>,
   <<"rovers", "A", "photos">>}

\* fetch resolves and the body parses, fetch rejects, or json() rejects.
Upstreams ==
  {[kind |-> "json", body |-> b] : b \in RoverListResponses \cup PhotoResponses(Str(<<"A">>))}
  \cup {[kind |-> "fetchRejects"], [kind |-> "notJSON"]}

Requests ==
  [path : Paths, max_date : {Undefined, Str(<<"7">>)},
   staticFile : {"none", "public", "dist"}, indexHtml : BOOLEAN,
   upstream : Upstreams]

Sent(layer, status, body) == [sent |-> TRUE, by |-> layer, status |-> status, body |-> body]

\* The handler is over and the response was never sent.
NotSent(layer) == [sent |-> FALSE, by |-> layer]

\* The layer does not answer: the next one is tried.
CallsNext == [next |-> TRUE]

InternalServerError == [text |-> "Internal server error!!!"]

\* express.static(dir): answers when dir holds a file for the path.
static(dir, req) ==
  IF req.staticFile = dir THEN Sent(dir, 200, [file |-> req.path]) ELSE CallsNext

\* app.get('*'): res.sendFile(dist/index.html); a missing file goes to the
\* error handler, which no route follows.
catchAll(req) ==
  IF req.indexHtml THEN Sent("*", 200, [file |-> <<"dist", "index.html">>])
  ELSE Sent("*", 404, [text |-> "Not Found"])

\* app.get("/rovers").
rovers(req) ==
  IF req.upstream.kind = "json" THEN Sent("/rovers", 200, req.upstream.body)
  ELSE Sent("/rovers", 500, InternalServerError)

\* app.get("/rovers/:name"): the catch block reads the undeclared name
\* error, which throws before res.status(500) is reached.
roversName(req) ==
  IF req.upstream.kind = "json" THEN Sent("/rovers/:name", 200, req.upstream.body)
  ELSE NotSent("/rovers/:name")

MatchRovers(path) == path = <<"rovers">>
MatchRoversName(path) == Len(path) = 2 /\ path[1] = "rovers"

\* The application's stack, in registration order.
Layer(i, req) ==
  CASE i = 1 -> static("public", req)
    [] i = 2 -> static("dist", req)
    [] i = 3 -> catchAll(req)
    [] i = 4 -> IF MatchRovers(req.path) THEN rovers(req) ELSE CallsNext
    [] i = 5 -> IF MatchRoversName(req.path) THEN roversName(req) ELSE CallsNext
    [] OTHER -> Sent("finalhandler", 404, [text |-> "Not Found"])

RECURSIVE handle(_, _)
handle(i, req) ==
  LET out == Layer(i, req)
  IN IF out = CallsNext THEN handle(i + 1, req) ELSE out

InitServer ==
  /\ Init!1 /\ Init!2 /\ Init!3 /\ Init!4 /\ Init!5 /\ Init!6 /\ Init!7 /\ Init!8
  /\ Init!9 /\ Init!10 /\ Init!11 /\ Init!12 /\ Init!13 /\ Init!14 /\ Init!15
  /\ Init!16 /\ Init!17
  /\ request \in Requests
  /\ response = Undefined

ServerUnchanged ==
  UNCHANGED <<root, displayed, dataBsTheme, roverListFetch, photoFetches, microtasks,
              clicks, issued, outcome, selected, lastEvent, photoArg, photoCard,
              mergeArg, mergeOut, jsonArg, jsonOut, request>>

\* The application receives the request.
Dispatch ==
  /\ response = Undefined
  /\ response' = handle(1, request)
  /\ ServerUnchanged

SpecServer == InitServer /\ [][Dispatch]_vars

\* The two proxy handlers called with the request, as the router would
\* call them on a match.
RoversHandler ==
  /\ response = Undefined
  /\ MatchRovers(request.path)
  /\ response' = rovers(request)
  /\ ServerUnchanged

RoversNameHandler ==
  /\ response = Undefined
  /\ MatchRoversName(request.path)
  /\ response' = roversName(request)
  /\ ServerUnchanged

SpecHandler == InitServer /\ [][RoversHandler \/ RoversNameHandler]_vars

(***************************************************************************)
(* Properties                                                              *)
(***************************************************************************)
IsDark(state) == Truthy(get(state, "isDarkMode"))
SelectedRover == get(displayed, "selectedRover")
SelectedRoverGallery == get(displayed, "selectedRoverGallery")
Loading(rover) == Map(("loading" :> Bool(TRUE)) @@ rover.m)
NotLoading(rover) == Map(("loading" :> Bool(FALSE)) @@ rover.m)
StateKeys == {"user", "rovers", "selectedRover", "selectedRoverGallery", "isDarkMode"}
SameState(a, b) == \A k \in StateKeys : get(a, k) = get(b, k)

\* C1: when the photo request of an earlier selection resolves after a
\* later selection was made, the displayed selectedRover still has the name
\* of the rover selected last, and the displayed gallery is not the response
\* to the earlier rover's request.
C1_LateResponseKeepsSelection ==
  (lastEvent.op = "photosResolved" /\ ~lastEvent.latest) =>
     /\ isMap(SelectedRover)
     /\ get(SelectedRover, "name") = get(selected, "name")
     /\ (get(lastEvent.rover, "name") # get(selected, "name")
           => SelectedRoverGallery # lastEvent.data)

\* C2: after a click on rover R's card, from whatever state is displayed,
\* the displayed state has selectedRoverGallery = false and selectedRover =
\* R with loading = true; once the continuation has run exactly one photo
\* request was issued, and it carries R.name and R.max_date.
C2_Selection ==
  lastEvent.op = "showRoverDetails" =>
     /\ SelectedRoverGallery = Bool(FALSE)
     /\ SelectedRover = Loading(lastEvent.rover)
     /\ microtasks # <<>> => issued = lastEvent.issued
     /\ microtasks = <<>> =>
          /\ issued = lastEvent.issued + 1
          /\ \E f \in photoFetches :
               /\ f.id = lastEvent.issued
               /\ f.request.roverName = get(lastEvent.rover, "name")
               /\ f.request.maxDate = get(lastEvent.rover, "max_date")

\* C2 witness: rover B selected while rover A's gallery is displayed
\* (Loaded), and the one request for B is in flight.
C2_Witness ==
  /\ lastEvent.op = "showRoverDetails"
  /\ isMap(get(lastEvent.before, "selectedRoverGallery"))
  /\ get(get(lastEvent.before, "selectedRover"), "name") = get(RoverA, "name")
  /\ lastEvent.rover = RoverB
  /\ SelectedRover = Loading(RoverB)
  /\ microtasks = <<>>
  /\ Cardinality(photoFetches) = 1

\* The state displayed when the request of the latest selection has resolved.
Loaded(rover, data) ==
  /\ SelectedRoverGallery = data
  /\ SelectedRover = NotLoading(rover)

C3_Resolved ==
  (lastEvent.op = "photosResolved" /\ lastEvent.latest) => Loaded(selected, lastEvent.data)

RoverIsLoaded(rover) ==
  /\ SelectedRover = NotLoading(rover)
  /\ isMap(SelectedRoverGallery)

\* The network assumption of C3: every photo request issued resolves.
EveryFetchResolves ==
  \A id \in 1..MaxClicks :
    (Len(outcome) >= id /\ outcome[id] = "pending")
       ~> (Len(outcome) >= id /\ outcome[id] = "resolved")

\* C3: when the photo request of the selected rover R resolves with no
\* other selection in between, the displayed state has the fetched gallery
\* and R's fields with loading = false; and when every issued request
\* resolves, every selection of R leads to a displayed Loaded state of R.
C3_SelectionReachesLoaded ==
  /\ []C3_Resolved
  /\ EveryFetchResolves =>
       \A rover \in {RoverA, RoverB} :
         (lastEvent.op = "showRoverDetails" /\ lastEvent.rover = rover)
            ~> RoverIsLoaded(rover)

\* C3 witness: the request of the latest selection (rover B, selected while
\* A was loading) has resolved with photos and B is displayed Loaded.
C3_Witness ==
  /\ lastEvent.op = "photosResolved"
  /\ lastEvent.latest
  /\ selected = RoverB
  /\ Loaded(RoverB, lastEvent.data)
  /\ isList(get(lastEvent.data, "photos"))

\* C4: every transition merges its patch into the state that is displayed
\* when it runs.
C4_MergesIntoDisplayed ==
  lastEvent.op \in {"toggleTheme", "showRoverDetails", "roverListResolved", "photosResolved"}
     => SameState(lastEvent.base, lastEvent.before)

\* C5: while the continuation of an update is pending, the markup in the
\* root is the render of the very state the callback will receive and
\* nothing else is queued; the callback is fetchRoverData exactly for a
\* rover selection, and it has been called once per selection and never
\* for an update without a callback.
C5_UpdateOrder ==
  /\ microtasks # <<>> =>
       /\ Len(microtasks) = 1
       /\ Head(microtasks).arg = displayed
       /\ root.innerHTML = generateAppContent(Head(microtasks).arg)
       /\ Head(microtasks).callback = "fetchRoverData" <=> lastEvent.op = "showRoverDetails"
       /\ issued = lastEvent.issued
  /\ microtasks = <<>> =>
       issued = lastEvent.issued + (IF lastEvent.op = "showRoverDetails" THEN 1 ELSE 0)

\* C5 witness: a selection has rendered and its callback is about to run.
C5_Witness ==
  /\ microtasks # <<>>
  /\ Head(microtasks).callback = "fetchRoverData"
  /\ get(Head(microtasks).arg, "selectedRover") = Loading(RoverA)
  /\ root.innerHTML.roverCards[1].busy

\* C6: once the photo request of the latest selection has failed, the
\* displayed state keeps that selection with loading = true and
\* selectedRoverGallery = false (no fetch settlement changes it).
C6_FailedFetchStalls ==
  (issued > 0 /\ microtasks = <<>> /\ outcome[issued] = "rejected") =>
     /\ SelectedRover = Loading(selected)
     /\ SelectedRoverGallery = Bool(FALSE)

\* C7: a theme toggle negates the displayed isDarkMode, main and footer
\* both carry dark-mode when the result is true and light-mode otherwise;
\* one toggle from the initial state gives true, and the second of two
\* consecutive toggles restores the flag displayed before the first.
C7_Toggle ==
  lastEvent.op = "toggleTheme" =>
     /\ IsDark(displayed) = ~IsDark(lastEvent.before)
     /\ get(displayed, "isDarkMode") \in {Bool(TRUE), Bool(FALSE)}
     /\ root.innerHTML.mainClass = (IF IsDark(displayed) THEN "dark-mode" ELSE "light-mode")
     /\ root.innerHTML.footerClass = root.innerHTML.mainClass
     /\ lastEvent.before = initialState =>
          get(displayed, "isDarkMode") = Bool(TRUE) /\ root.innerHTML.mainClass = "dark-mode"
     /\ lastEvent.prevOp = "toggleTheme" =>
          IsDark(displayed) = IsDark(lastEvent.prevBefore)

\* C7 witness: two consecutive toggles, the second back to light mode.
C7_Witness ==
  /\ lastEvent.op = "toggleTheme"
  /\ lastEvent.prevOp = "toggleTheme"
  /\ IsDark(lastEvent.before)
  /\ ~IsDark(displayed)
  /\ root.innerHTML.mainClass = "light-mode"

\* C8: whenever rovers is absent from the displayed state, generating the
\* markup does not throw and the rover row is the loading placeholder,
\* with no rover card.
C8_Placeholder ==
  ~Truthy(get(displayed, "rovers")) =>
     /\ generateAppContent(displayed) # Threw
     /\ root.innerHTML = generateAppContent(displayed)
     /\ root.innerHTML.roverCards = showLoadingSpinner
     /\ \A i \in 1..Len(root.innerHTML.roverCards) :
          root.innerHTML.roverCards[i].piece # "roverCard"

\* C8 witness: a rover-list response without the rovers field was merged
\* and rendered.
C8_Witness ==
  /\ lastEvent.op = "roverListResolved"
  /\ get(lastEvent.data, "rovers") = Undefined
  /\ "rovers" \in DOMAIN displayed.m
  /\ root.innerHTML.roverCards = showLoadingSpinner

\* C9: the gallery row holds exactly one card per photo when the displayed
\* selectedRoverGallery holds a photos list, and nothing at all otherwise.
C9_GalleryRegion ==
  IF isMap(SelectedRoverGallery) /\ isList(get(SelectedRoverGallery, "photos"))
  THEN /\ Len(root.innerHTML.gallery) = Len(get(SelectedRoverGallery, "photos").l)
       /\ \A i \in 1..Len(root.innerHTML.gallery) :
            root.innerHTML.gallery[i].piece = "photoCard"
  ELSE root.innerHTML.gallery = <<>>

FieldPresent(value) == value # Undefined
CameraName == OptionalGet(photoArg, "camera", "full_name")
EarthDate == get(photoArg, "earth_date")
RoverName == OptionalGet(photoArg, "rover", "name")

\* C10 as stated: an absent field is rendered as its default, a present one
\* verbatim, and never as the text "undefined".
C10_PresentVerbatim ==
  photoCard # Undefined =>
     /\ photoCard.camera =
          (IF FieldPresent(CameraName) THEN CameraName.s ELSE UnknownCamera)
     /\ photoCard.date = (IF FieldPresent(EarthDate) THEN EarthDate.s ELSE UnknownDate)
     /\ photoCard.rover = (IF FieldPresent(RoverName) THEN RoverName.s ELSE UnknownRover)
     /\ TextUndefined \notin {photoCard.camera, photoCard.date, photoCard.rover}

\* C10 amended: an absent or empty field is rendered as its default, a
\* non-empty one verbatim, and never as the text "undefined".
C10_Defaults ==
  photoCard # Undefined =>
     /\ photoCard.camera =
          (IF FieldPresent(CameraName) /\ CameraName.s # <<>> THEN CameraName.s
           ELSE UnknownCamera)
     /\ photoCard.date =
          (IF FieldPresent(EarthDate) /\ EarthDate.s # <<>> THEN EarthDate.s ELSE UnknownDate)
     /\ photoCard.rover =
          (IF FieldPresent(RoverName) /\ RoverName.s # <<>> THEN RoverName.s
           ELSE UnknownRover)
     /\ TextUndefined \notin {photoCard.camera, photoCard.date, photoCard.rover}

\* C10 witness: a card for a photo without a camera object, with an empty
\* earth_date and with a rover name.
C10_Witness ==
  /\ photoCard # Undefined
  /\ get(photoArg, "camera") = Undefined
  /\ EarthDate = Str(<<>>)
  /\ RoverName = Str(<<"A">>)
  /\ photoCard.camera = UnknownCamera
  /\ photoCard.date = UnknownDate
  /\ photoCard.rover = <<"A">>

\* C11: merging a patch leaves every key that is not in the patch as it
\* was, and for two patches with disjoint keys merging one then the other,
\* the other then the one, and both at once give the same state.
C11_MergeDisjoint ==
  mergeOut # Undefined =>
     /\ \A k \in (DOMAIN mergeArg.state.m) \ (DOMAIN mergeArg.a.m) :
          /\ k \in DOMAIN mergeOut.a.m
          /\ mergeOut.a.m[k] = mergeArg.state.m[k]
     /\ \A k \in DOMAIN mergeArg.a.m : k \in DOMAIN mergeOut.a.m
     /\ mergeOut.ab = mergeOut.ba
     /\ mergeOut.ab = mergeOut.both

\* C11 witness: the selection patch's two keys merged in either order
\* into a state that shows a loaded gallery, with the theme and the rover
\* list kept.
C11_Witness ==
  /\ mergeOut # Undefined
  /\ isMap(get(mergeArg.state, "selectedRoverGallery"))
  /\ DOMAIN mergeArg.a.m = {"selectedRover"}
  /\ DOMAIN mergeArg.b.m = {"selectedRoverGallery"}
  /\ get(mergeOut.ab, "selectedRoverGallery") = Bool(FALSE)
  /\ get(get(mergeOut.ba, "selectedRover"), "name") = get(RoverB, "name")
  /\ get(mergeOut.ab, "rovers") = get(mergeArg.state, "rovers")

\* C12: an object serialized with convertToJSON into an inline action and
\* parsed back as the action's argument equals the original field for
\* field, for strings over an alphabet with the single and the double quote.
C12_RoundTrip ==
  jsonOut # Undefined => jsonOut = jsonArg

\* C13: a GET for /rovers or /rovers/:name is answered by its proxy
\* handler, with the upstream JSON body verbatim when there is one, and
\* never by the catch-all route.
C13_ProxyRoutesReached ==
  (response # Undefined /\ (MatchRovers(request.path) \/ MatchRoversName(request.path))) =>
     /\ response.by = (IF MatchRovers(request.path) THEN "/rovers" ELSE "/rovers/:name")
     /\ request.upstream.kind = "json" =>
          (response.sent /\ response.body = request.upstream.body)

\* C14: when the upstream request of a proxy handler fails, the handler
\* answers with status 500; no failing request is left without a response.
C14_UpstreamFailureIs500 ==
  (response # Undefined /\ request.upstream.kind # "json") =>
     (response.sent /\ response.status = 500)

RoverCards == root.innerHTML.roverCards
BusyCards == {i \in 1..Len(RoverCards) : RoverCards[i].piece = "roverCard" /\ RoverCards[i].busy}

\* C15: in every displayed state a rover card is busy exactly when
\* selectedRover is a rover record with its loading flag set and the name
\* of that card's rover; at most one card is busy, and none is in the Idle
\* and Loaded states.
C15_BusyCard ==
  /\ isList(get(displayed, "rovers")) =>
       /\ Len(RoverCards) = Len(get(displayed, "rovers").l)
       /\ \A i \in 1..Len(RoverCards) :
            /\ RoverCards[i].piece = "roverCard"
            /\ RoverCards[i].name = ToText(get(get(displayed, "rovers").l[i], "name"))
            /\ RoverCards[i].busy <=>
                 /\ isMap(SelectedRover)
                 /\ Truthy(get(SelectedRover, "loading"))
                 /\ get(SelectedRover, "name") = get(get(displayed, "rovers").l[i], "name")
  /\ Cardinality(BusyCards) <= 1
  /\ SelectedRover = Bool(FALSE) => BusyCards = {}
  /\ (isMap(SelectedRover) /\ ~Truthy(get(SelectedRover, "loading"))) => BusyCards = {}

\* C15 witness: the second rover was selected and its photos are awaited;
\* its card is the only busy one of two.
C15_Witness ==
  /\ lastEvent.op = "showRoverDetails"
  /\ Len(RoverCards) = 2
  /\ BusyCards = {2}
  /\ get(SelectedRover, "name") = get(RoverB, "name")
  /\ get(SelectedRover, "loading") = Bool(TRUE)

ToggleCarried == ParseAction(root.innerHTML.toggleOnclick)
CardCarried(i) == ParseAction(RoverCards[i].onclickState)

FetchResolved == lastEvent.op \in {"roverListResolved", "photosResolved"}

\* C17: the resolution of a fetch does not undo a theme toggle made while
\* the fetch was in flight: the isDarkMode displayed after the resolution
\* is the one displayed just before it.
C17_ResolutionKeepsTheme ==
  FetchResolved => IsDark(displayed) = IsDark(lastEvent.before)

\* C18: once a toggle has happened, the data-bs-theme attribute of the
\* document is dark exactly when the displayed isDarkMode is true, and
\* light exactly when it is false.
C18_AttributeFollowsTheme ==
  dataBsTheme # "unset" =>
     /\ dataBsTheme \in {"dark", "light"}
     /\ (dataBsTheme = "dark") <=> IsDark(displayed)

\* After page load: the initial state is on display and the one
\* rover-list fetch is pending; right after the list response is rendered
\* the displayed rovers are those of the response, shown as cards.
C19_LoadAndList ==
  /\ lastEvent.op = "load" =>
       /\ displayed = initialState
       /\ root.innerHTML = generateAppContent(initialState)
       /\ RoverCards = showLoadingSpinner
       /\ roverListFetch = "pending"
  /\ lastEvent.op = "roverListResolved" =>
       /\ roverListFetch = "resolved"
       /\ get(displayed, "rovers") = get(lastEvent.data, "rovers")
  /\ (roverListFetch = "resolved" /\ isList(get(displayed, "rovers"))) =>
       /\ RoverCards # showLoadingSpinner
       /\ Len(RoverCards) = Len(get(displayed, "rovers").l)

\* The rover-list fetch is settled once and never issued again.
C19_OneListFetch == roverListFetch # "pending" => roverListFetch' = roverListFetch

\* Once the list response is rendered the displayed rovers do not change.
C19_RoversKept ==
  roverListFetch = "resolved" => get(displayed', "rovers") = get(displayed, "rovers")

====
